---- MODULE Spec2Model ----
(***************************************************************************)
(* Model of the pcan-basic crate: the CAN / CAN-FD frame types             *)
(* (src/src/lib.rs), the per-family socket types and their lifecycle       *)
(* (src/src/lib.rs, src/src/can/usb.rs) and the blanket read / write       *)
(* implementations over the foreign PCAN-Basic driver.                     *)
(*                                                                         *)
(* Four specifications share the variables:                                *)
(*   SpecFrame  the frame constructors applied to bounded inputs,          *)
(*   SpecEq     frame equality on frames built by new or filled by a read, *)
(*   Spec       socket construction, move and drop against a driver whose  *)
(*              status codes are chosen nondeterministically,              *)
(*   SpecIo     one socket used for reads, writes and feature calls.       *)
(***************************************************************************)
EXTENDS Integers, Sequences, FiniteSets, TLC

VARIABLES
    arg,      \* SpecFrame: the (can_id, msg_type, data) passed to the constructors
    cnew,     \* SpecFrame: outcome of CanFrame::new(arg), or NotCalled
    fnew,     \* SpecFrame: outcome of CanFdFrame::new(arg), or NotCalled
    fam,      \* SpecEq: frame family under comparison, "classic" or "fd"
    lhs,      \* SpecEq: left frame held by the caller
    rhs,      \* SpecEq: right frame held by the caller
    eqres,    \* SpecEq: outcome of lhs == rhs, or "none" before the comparison
    sock,     \* Spec: per binding, the socket value it holds and its history
    drv,      \* Spec: set of handles the driver currently holds initialized
    lastOp    \* Spec: the last read / write / feature operation and its outcome

vars == <<arg, cnew, fnew, fam, lhs, rhs, eqres, sock, drv, lastOp>>

frameVars == <<arg, cnew, fnew>>
eqVars == <<fam, lhs, rhs, eqres>>
sockVars == <<sock, drv, lastOp>>

(***************************************************************************)
(* Bounds of the model.                                                    *)
(***************************************************************************)
MaxPayloadLen == 65   \* payloads of 0..MaxPayloadLen bytes reach both capacities
MaxEqLen == 2         \* payload lengths used when comparing frames
MaxSockets == 2       \* socket bindings a run may create
MaxBus == 1           \* bus identifiers per adapter family

(***************************************************************************)
(* Program constants.  The two message-type flags come from the            *)
(* pcan_basic_sys bindings (PCANBasic.h), the rest from lib.rs.            *)
(***************************************************************************)
STANDARD_MASK == 2047          \* 0x07_FF
EXTENDED_MASK == 536870911     \* 0x1F_FF_FF_FF
CanFrame_MAX_DLC == 8
CanFdFrame_MAX_DLC == 64
PCAN_MESSAGE_STANDARD == 0
PCAN_MESSAGE_EXTENDED == 2

MessageType == {"Standard", "Extended"}

\* Bitwise AND of two naturals, as Rust's & on unsigned integers.
RECURSIVE BitAnd(_, _)
BitAnd(a, b) ==
    IF a = 0 \/ b = 0 THEN 0
    ELSE (a % 2) * (b % 2) + 2 * BitAnd(a \div 2, b \div 2)

\* [0; n] with the payload copied over its first Len(data) cells.
FrameData(data, n) == [i \in 1..n |-> IF i <= Len(data) THEN data[i] ELSE 0]

TooMuchData == [ok |-> FALSE, err |-> "TooMuchData"]
NotCalled == [ok |-> FALSE, err |-> "NotCalled"]

(***************************************************************************)
(* CanFrame (classic frame): TPCANMsg { ID, MSGTYPE, LEN, DATA[8] }.       *)
(***************************************************************************)
\* Variant: the bound test is off by one (>= instead of >).
CanFrame_new_OffByOne(can_id, msg_type, data) ==
    IF Len(data) >= CanFrame_MAX_DLC
    THEN TooMuchData
    ELSE [ok |-> TRUE,
          frame |-> [ID |-> BitAnd(can_id, STANDARD_MASK),
                     MSGTYPE |-> PCAN_MESSAGE_STANDARD,
                     LEN |-> Len(data),
                     DATA |-> FrameData(data, 8)]]

\* Variant: the Standard branch masks with the extended mask.
CanFrame_new_WideMask(can_id, msg_type, data) ==
    IF Len(data) > CanFrame_MAX_DLC
    THEN TooMuchData
    ELSE [ok |-> TRUE,
          frame |-> [ID |-> BitAnd(can_id, EXTENDED_MASK),
                     MSGTYPE |-> PCAN_MESSAGE_STANDARD,
                     LEN |-> Len(data),
                     DATA |-> FrameData(data, 8)]]

CanFrame_new(can_id, msg_type, data) ==
    IF Len(data) > CanFrame_MAX_DLC
    THEN TooMuchData
    ELSE IF msg_type = "Standard"
         THEN [ok |-> TRUE,
               frame |-> [ID |-> BitAnd(can_id, STANDARD_MASK),
                          MSGTYPE |-> PCAN_MESSAGE_STANDARD,
                          LEN |-> Len(data),
                          DATA |-> FrameData(data, 8)]]
         ELSE [ok |-> TRUE,
               frame |-> [ID |-> BitAnd(can_id, STANDARD_MASK),
                          MSGTYPE |-> PCAN_MESSAGE_STANDARD,
                          LEN |-> Len(data),
                          DATA |-> FrameData(data, 8)]]

CanFrame_is_standard_frame(f) == BitAnd(f.MSGTYPE, PCAN_MESSAGE_STANDARD) # 0

CanFrame_is_extended_frame(f) == BitAnd(f.MSGTYPE, PCAN_MESSAGE_EXTENDED) # 0

CanFrame_can_id(f) ==
    IF CanFrame_is_standard_frame(f)
    THEN BitAnd(f.ID, STANDARD_MASK)
    ELSE BitAnd(f.ID, EXTENDED_MASK)

CanFrame_dlc(f) == f.LEN

\* &DATA[0..dlc]: slicing past the fixed capacity panics.
CanFrame_data(f) ==
    IF CanFrame_dlc(f) > Len(f.DATA)
    THEN [panic |-> TRUE, bytes |-> <<>>]
    ELSE [panic |-> FALSE, bytes |-> SubSeq(f.DATA, 1, CanFrame_dlc(f))]

\* A write of byte v through mut_data()[i] (0-based i < dlc).
CanFrame_mut_data(f, i, v) == [f EXCEPT !.DATA[i + 1] = v]

CanFrame_default == CanFrame_new(0, "Standard", <<>>).frame

\* Variant: equality compares the whole fixed buffer, padding included.
CanFrame_eq_WholeBuffer(a, b) ==
    IF a.ID # b.ID THEN "false"
    ELSE IF a.LEN # b.LEN THEN "false"
    ELSE IF a.MSGTYPE # b.MSGTYPE THEN "false"
    ELSE IF a.DATA # b.DATA THEN "false"
    ELSE "true"

\* PartialEq: "true", "false", or "panic" when a data() slice panics.
CanFrame_eq(a, b) ==
    IF a.ID # b.ID THEN "false"
    ELSE IF a.LEN # b.LEN THEN "false"
    ELSE IF a.MSGTYPE # b.MSGTYPE THEN "false"
    ELSE IF CanFrame_data(a).panic \/ CanFrame_data(b).panic THEN "panic"
    ELSE IF CanFrame_data(a).bytes # CanFrame_data(b).bytes THEN "false"
    ELSE "true"

(***************************************************************************)
(* CanFdFrame: TPCANMsgFD { ID, MSGTYPE, DLC, DATA[64] }.                  *)
(***************************************************************************)
\* Variant: the FD constructor tests against the classic capacity.
CanFdFrame_new_ClassicBound(can_id, msg_type, data) ==
    IF Len(data) > CanFrame_MAX_DLC
    THEN TooMuchData
    ELSE [ok |-> TRUE,
          frame |-> [ID |-> BitAnd(can_id, STANDARD_MASK),
                     MSGTYPE |-> PCAN_MESSAGE_STANDARD,
                     DLC |-> Len(data),
                     DATA |-> FrameData(data, 64)]]

CanFdFrame_new(can_id, msg_type, data) ==
    IF Len(data) > CanFdFrame_MAX_DLC
    THEN TooMuchData
    ELSE IF msg_type = "Standard"
         THEN [ok |-> TRUE,
               frame |-> [ID |-> BitAnd(can_id, STANDARD_MASK),
                          MSGTYPE |-> PCAN_MESSAGE_STANDARD,
                          DLC |-> Len(data),
                          DATA |-> FrameData(data, 64)]]
         ELSE [ok |-> TRUE,
               frame |-> [ID |-> BitAnd(can_id, STANDARD_MASK),
                          MSGTYPE |-> PCAN_MESSAGE_STANDARD,
                          DLC |-> Len(data),
                          DATA |-> FrameData(data, 64)]]

CanFdFrame_is_standard_frame(f) == BitAnd(f.MSGTYPE, PCAN_MESSAGE_STANDARD) # 0

CanFdFrame_is_extended_frame(f) == BitAnd(f.MSGTYPE, PCAN_MESSAGE_EXTENDED) # 0

CanFdFrame_can_id(f) ==
    IF CanFdFrame_is_standard_frame(f)
    THEN BitAnd(f.ID, STANDARD_MASK)
    ELSE BitAnd(f.ID, EXTENDED_MASK)

CanFdFrame_dlc(f) == f.DLC

CanFdFrame_data(f) ==
    IF CanFdFrame_dlc(f) > Len(f.DATA)
    THEN [panic |-> TRUE, bytes |-> <<>>]
    ELSE [panic |-> FALSE, bytes |-> SubSeq(f.DATA, 1, CanFdFrame_dlc(f))]

CanFdFrame_mut_data(f, i, v) == [f EXCEPT !.DATA[i + 1] = v]

CanFdFrame_default == CanFdFrame_new(0, "Standard", <<>>).frame

CanFdFrame_eq(a, b) ==
    IF a.ID # b.ID THEN "false"
    ELSE IF a.DLC # b.DLC THEN "false"
    ELSE IF a.MSGTYPE # b.MSGTYPE THEN "false"
    ELSE IF CanFdFrame_data(a).panic \/ CanFdFrame_data(b).panic THEN "panic"
    ELSE IF CanFdFrame_data(a).bytes # CanFdFrame_data(b).bytes THEN "false"
    ELSE "true"

(***************************************************************************)
(* Inputs of SpecFrame.  Identifiers cover both masks, their successors    *)
(* and the scenario values of the crate's tests; payloads are arithmetic   *)
(* byte runs (seed, seed+step, ...) of every length up to MaxPayloadLen.   *)
(***************************************************************************)
\* (identifiers stay below 2^31, the range of TLC's integers; the
\* masks only read the low 29 bits)
CanIds == {0, 32, 2047, 2048, 134217727, 536870911, 536870912 + 291, 2147483647}

Payload(n, seed, step) == [i \in 1..n |-> (seed + (i - 1) * step) % 256]

Payloads ==
    {Payload(n, seed, step) : n \in 0..MaxPayloadLen, seed \in {0, 171}, step \in {0, 1}}

FrameArgs == [id : CanIds, mode : MessageType, data : Payloads]

\* Values of the socket variables while a frame specification runs.
IdleSock == [s \in 1..MaxSockets |-> [st |-> "none"]]
IdleOp == [op |-> "none"]
IdleEq == /\ fam = "classic"
          /\ lhs = CanFrame_default
          /\ rhs = CanFrame_default
          /\ eqres = "none"
IdleSockets == /\ sock = IdleSock
               /\ drv = {}
               /\ lastOp = IdleOp

InitFrame ==
    /\ arg \in FrameArgs
    /\ cnew = NotCalled
    /\ fnew = NotCalled
    /\ IdleEq
    /\ IdleSockets

NewClassic ==
    /\ cnew = NotCalled
    /\ cnew' = CanFrame_new(arg.id, arg.mode, arg.data)
    /\ UNCHANGED <<arg, fnew, eqVars, sockVars>>

NewFd ==
    /\ fnew = NotCalled
    /\ fnew' = CanFdFrame_new(arg.id, arg.mode, arg.data)
    /\ UNCHANGED <<arg, cnew, eqVars, sockVars>>

NextFrame == NewClassic \/ NewFd

SpecFrame == InitFrame /\ [][NextFrame]_vars

(***************************************************************************)
(* Status decoding shared by every constructor and I/O operation.  The     *)
(* driver returns a status code; PcanOkError::try_from maps the success    *)
(* code to Ok, a catalogued failure code to Err(kind), and fails on any    *)
(* other code, which the callers turn into PcanError::Unknown.             *)
(***************************************************************************)
PCAN_ERROR_OK == "PCAN_ERROR_OK"
KnownErrors == {"QrcvEmpty", "BusOff", "Initialize"}
StatusCodes == {PCAN_ERROR_OK} \cup KnownErrors \cup {"0xDEAD"}

PcanOkError_try_from(code) ==
    IF code = PCAN_ERROR_OK THEN [valid |-> TRUE, ok |-> TRUE, err |-> "none"]
    ELSE IF code \in KnownErrors THEN [valid |-> TRUE, ok |-> FALSE, err |-> code]
    ELSE [valid |-> FALSE, ok |-> FALSE, err |-> "none"]

\* Variant: a status the decoder does not recognize is taken for success.
MatchStatus_UnknownIsOk(code, val) ==
    LET d == PcanOkError_try_from(code) IN
    IF d.valid /\ ~d.ok THEN [ok |-> FALSE, err |-> d.err]
    ELSE [ok |-> TRUE, val |-> val]

\* The three-armed match every operation ends with; val is the Ok payload.
MatchStatus(code, val) ==
    LET d == PcanOkError_try_from(code) IN
    IF d.valid /\ d.ok THEN [ok |-> TRUE, val |-> val]
    ELSE IF d.valid THEN [ok |-> FALSE, err |-> d.err]
    ELSE [ok |-> FALSE, err |-> "Unknown"]

\* One foreign call against a channel handle.
Call(fn, h) == [fn |-> fn, handle |-> h]

(***************************************************************************)
(* Blanket I/O implementations.  h is self.handle(), code the status the   *)
(* driver returned, filled the frame memory after the call (the default    *)
(* frame, overwritten as the driver chose).  Each yields the foreign calls *)
(* it issued and its result.                                               *)
(***************************************************************************)
CanRead_read(h, code, filled, ts) ==
    [calls |-> <<Call("CAN_Read", h)>>,
     res |-> MatchStatus(code, [frame |-> filled, timestamp |-> ts])]

\* Variant: an empty receive queue is polled a second time.
CanRead_read_frame_Retry(h, code, filled) ==
    [calls |-> IF code = "QrcvEmpty"
               THEN <<Call("CAN_Read", h), Call("CAN_Read", h)>>
               ELSE <<Call("CAN_Read", h)>>,
     res |-> MatchStatus(code, filled)]

CanRead_read_frame(h, code, filled) ==
    [calls |-> <<Call("CAN_Read", h)>>, res |-> MatchStatus(code, filled)]

CanReadFd_read(h, code, filled, ts) ==
    [calls |-> <<Call("CAN_ReadFD", h)>>,
     res |-> MatchStatus(code, [frame |-> filled, timestamp |-> ts])]

CanReadFd_read_frame(h, code, filled) ==
    [calls |-> <<Call("CAN_ReadFD", h)>>, res |-> MatchStatus(code, filled)]

CanWrite_write(h, code, frame) ==
    [calls |-> <<Call("CAN_Write", h)>>, res |-> MatchStatus(code, "unit")]

CanWriteFd_write(h, code, frame) ==
    [calls |-> <<Call("CAN_WriteFD", h)>>, res |-> MatchStatus(code, "unit")]

(***************************************************************************)
(* SpecEq: two caller-held frames of one family, each built by new or      *)
(* returned by a successful read_frame, optionally edited through          *)
(* mut_data, then compared.                                                *)
(***************************************************************************)
EqIds == {32, 33}
EqBytes == {0, 170}
EqPayloads == {Payload(n, seed, 0) : n \in 0..MaxEqLen, seed \in EqBytes}

\* Buffers the driver may leave behind: a run of one byte, then another.
DriverData(n) ==
    {[i \in 1..n |-> IF i <= k THEN a ELSE b] : k \in 0..MaxEqLen, a \in EqBytes, b \in EqBytes}

\* Frames a driver read may fill in, with lengths within the capacity.
DriverClassicFrames ==
    [ID : EqIds, MSGTYPE : {PCAN_MESSAGE_STANDARD, PCAN_MESSAGE_EXTENDED},
     LEN : {n \in 0..MaxEqLen : n <= CanFrame_MAX_DLC}, DATA : DriverData(8)]

DriverFdFrames ==
    [ID : EqIds, MSGTYPE : {PCAN_MESSAGE_STANDARD, PCAN_MESSAGE_EXTENDED},
     DLC : {n \in 0..MaxEqLen : n <= CanFdFrame_MAX_DLC}, DATA : DriverData(64)]

DefaultOf(f) == IF f = "classic" THEN CanFrame_default ELSE CanFdFrame_default
NewOf(f, id, mode, data) ==
    IF f = "classic" THEN CanFrame_new(id, mode, data) ELSE CanFdFrame_new(id, mode, data)
\* The handle of the socket the compared frames are read from.
EqHandle == <<"UsbBus", 1>>
ReadFrameOf(f, code, filled) ==
    IF f = "classic"
    THEN CanRead_read_frame(EqHandle, code, filled).res
    ELSE CanReadFd_read_frame(EqHandle, code, filled).res
DriverFramesOf(f) == IF f = "classic" THEN DriverClassicFrames ELSE DriverFdFrames
DlcOf(f, fr) == IF f = "classic" THEN CanFrame_dlc(fr) ELSE CanFdFrame_dlc(fr)
MutDataOf(f, fr, i, v) ==
    IF f = "classic" THEN CanFrame_mut_data(fr, i, v) ELSE CanFdFrame_mut_data(fr, i, v)
EqOf(f, a, b) == IF f = "classic" THEN CanFrame_eq(a, b) ELSE CanFdFrame_eq(a, b)

IdleFrame == /\ arg = [id |-> 0, mode |-> "Standard", data |-> <<>>]
             /\ cnew = NotCalled
             /\ fnew = NotCalled

InitEq ==
    /\ fam \in {"classic", "fd"}
    /\ lhs = DefaultOf(fam)
    /\ rhs = DefaultOf(fam)
    /\ eqres = "none"
    /\ IdleFrame
    /\ IdleSockets

\* let lhs = Frame::new(id, mode, data).unwrap()
EqBuildLhs ==
    /\ eqres = "none" /\ lhs = DefaultOf(fam)
    /\ \E id \in EqIds, mode \in MessageType, data \in EqPayloads :
          /\ NewOf(fam, id, mode, data).ok
          /\ lhs' = NewOf(fam, id, mode, data).frame
    /\ UNCHANGED <<fam, rhs, eqres, frameVars, sockVars>>

EqBuildRhs ==
    /\ eqres = "none" /\ rhs = DefaultOf(fam)
    /\ \E id \in EqIds, mode \in MessageType, data \in EqPayloads :
          /\ NewOf(fam, id, mode, data).ok
          /\ rhs' = NewOf(fam, id, mode, data).frame
    /\ UNCHANGED <<fam, lhs, eqres, frameVars, sockVars>>

\* let lhs = socket.read_frame()?  with the driver reporting success
EqReadLhs ==
    /\ eqres = "none" /\ lhs = DefaultOf(fam)
    /\ \E filled \in DriverFramesOf(fam) :
          lhs' = ReadFrameOf(fam, PCAN_ERROR_OK, filled).val
    /\ UNCHANGED <<fam, rhs, eqres, frameVars, sockVars>>

EqReadRhs ==
    /\ eqres = "none" /\ rhs = DefaultOf(fam)
    /\ \E filled \in DriverFramesOf(fam) :
          rhs' = ReadFrameOf(fam, PCAN_ERROR_OK, filled).val
    /\ UNCHANGED <<fam, lhs, eqres, frameVars, sockVars>>

\* rhs.mut_data()[i] = v
EqMutData ==
    /\ eqres = "none"
    /\ \E i \in 0..(DlcOf(fam, rhs) - 1), v \in EqBytes :
          rhs' = MutDataOf(fam, rhs, i, v)
    /\ UNCHANGED <<fam, lhs, eqres, frameVars, sockVars>>

\* lhs == rhs
EqCompare ==
    /\ eqres = "none"
    /\ eqres' = EqOf(fam, lhs, rhs)
    /\ UNCHANGED <<fam, lhs, rhs, frameVars, sockVars>>

NextEq == EqBuildLhs \/ EqBuildRhs \/ EqReadLhs \/ EqReadRhs \/ EqMutData \/ EqCompare

SpecEq == InitEq /\ [][NextEq]_vars

(***************************************************************************)
(* Sockets.  A socket value is { handle: u16 }; its kind is its Rust type. *)
(* A binding (slot) is "none" before its constructor runs, "failed" when   *)
(* the constructor returned Err, "open" while it holds the socket value,   *)
(* "moved" once the value was moved out, "dropped" once the value's        *)
(* lifetime ended there.  released counts the CAN_Uninitialize calls       *)
(* issued for the value.                                                   *)
(***************************************************************************)
SocketKinds == {"Isa", "Dng", "Pci", "Pcc", "Usb", "Lan", "Can"}
BusTypes == {"IsaBus", "DngBus", "PciBus", "UsbBus", "LanBus"}
Slots == 1..MaxSockets
BusIds == 1..MaxBus

\* bus.handle() / bus.into(): distinct bus identifiers give distinct handles.
ToHandle(busType, n) == <<busType, n>>

\* The bus type each constructor takes; CanSocket::new is generic over it.
BusTypesOf(kind) ==
    CASE kind = "Isa" -> {"IsaBus"}
      [] kind = "Dng" -> {"DngBus"}
      [] kind = "Pci" -> {"PciBus"}
      [] kind = "Pcc" -> {"PciBus"}
      [] kind = "Usb" -> {"UsbBus"}
      [] kind = "Lan" -> {"LanBus"}
      [] kind = "Can" -> {"UsbBus", "IsaBus"}

\* Body shared by the seven constructors: one CAN_Initialize call on the
\* bus's handle, then the match on its status.
SocketInit(kind, handle, code) ==
    [calls |-> <<Call("CAN_Initialize", handle)>>,
     res |-> MatchStatus(code, [kind |-> kind, handle |-> handle])]

IsaCanSocket_new(bus, code) == SocketInit("Isa", ToHandle("IsaBus", bus), code)
DngCanSocket_new(bus, code) == SocketInit("Dng", ToHandle("DngBus", bus), code)
PciCanSocket_new(bus, code) == SocketInit("Pci", ToHandle("PciBus", bus), code)
PccCanSocket_new(bus, code) == SocketInit("Pcc", ToHandle("PciBus", bus), code)
LanCanSocket_new(bus, code) == SocketInit("Lan", ToHandle("LanBus", bus), code)
CanSocket_new(busType, bus, code) == SocketInit("Can", ToHandle(busType, bus), code)
UsbCanSocket_open(bus, code) == SocketInit("Usb", ToHandle("UsbBus", bus), code)

Construct(kind, busType, bus, code) ==
    CASE kind = "Isa" -> IsaCanSocket_new(bus, code)
      [] kind = "Dng" -> DngCanSocket_new(bus, code)
      [] kind = "Pci" -> PciCanSocket_new(bus, code)
      [] kind = "Pcc" -> PccCanSocket_new(bus, code)
      [] kind = "Lan" -> LanCanSocket_new(bus, code)
      [] kind = "Can" -> CanSocket_new(busType, bus, code)
      [] kind = "Usb" -> UsbCanSocket_open(bus, code)

\* The foreign calls issued when a socket value of this kind is dropped:
\* only the UsbCanSocket of can/usb.rs implements Drop; the socket types of
\* lib.rs implement none, and SocketDropWrapper, whose drop holds the
\* CAN_Uninitialize call, is never constructed around any of them.
DropCalls(kind, handle) ==
    IF kind = "Usb" THEN <<Call("CAN_Uninitialize", handle)>> ELSE <<>>

\* The driver's table of initialized channels after a sequence of calls.
RECURSIVE DriverAfter(_, _, _)
DriverAfter(d, calls, code) ==
    IF calls = <<>> THEN d
    ELSE LET c == Head(calls)
             d1 == IF c.fn = "CAN_Initialize" /\ code = PCAN_ERROR_OK
                   THEN d \cup {c.handle}
                   ELSE IF c.fn = "CAN_Uninitialize" THEN d \ {c.handle}
                   ELSE d
         IN DriverAfter(d1, Tail(calls), code)

IsOpen(s) == sock[s].st = "open"

\* let s = XxxCanSocket::new(bus, baud)  into the fresh binding s
OpenInto(s) ==
    /\ sock[s].st = "none"
    /\ \E kind \in SocketKinds, code \in StatusCodes, bus \in BusIds :
       \E busType \in BusTypesOf(kind) :
          LET r == Construct(kind, busType, bus, code) IN
          /\ sock' = [sock EXCEPT ![s] =
                IF r.res.ok
                THEN [st |-> "open", kind |-> r.res.val.kind,
                      handle |-> r.res.val.handle, code |-> code, released |-> 0]
                ELSE [st |-> "failed", code |-> code, err |-> r.res.err,
                      released |-> 0]]
          /\ drv' = DriverAfter(drv, r.calls, code)

\* the socket value of binding s goes out of scope
DropAt(s) ==
    /\ IsOpen(s)
    /\ LET calls == DropCalls(sock[s].kind, sock[s].handle) IN
          /\ sock' = [sock EXCEPT ![s].st = "dropped",
                                  ![s].released = @ + Len(calls)]
          /\ drv' = DriverAfter(drv, calls, PCAN_ERROR_OK)

Open ==
    /\ \E s \in Slots : OpenInto(s)
    /\ UNCHANGED <<lastOp, frameVars, eqVars>>

\* let t = s  (the value is moved, the source binding is dead, nothing drops)
Move ==
    /\ \E s \in Slots, t \in Slots :
          /\ IsOpen(s)
          /\ sock[t].st = "none"
          /\ sock' = [sock EXCEPT ![t] = sock[s], ![s] = [st |-> "moved"]]
    /\ UNCHANGED <<drv, lastOp, frameVars, eqVars>>

Drop ==
    /\ \E s \in Slots : DropAt(s)
    /\ UNCHANGED <<lastOp, frameVars, eqVars>>

Init ==
    /\ IdleSockets
    /\ IdleFrame
    /\ IdleEq

Next == Open \/ Move \/ Drop

Spec == Init /\ [][Next]_vars

(***************************************************************************)
(* Capability declarations: the marker-trait impls of each socket type.    *)
(***************************************************************************)
HasCanRead(kind) == kind \in {"Isa", "Dng", "Pci", "Pcc", "Usb", "Lan", "Can"}
HasCanReadFd(kind) == kind \in {"Isa", "Dng", "Pci", "Pcc", "Usb", "Lan", "Can"}
HasCanWrite(kind) == kind \in {"Isa", "Dng", "Pci", "Pcc", "Usb", "Lan", "Can"}
HasCanWriteFd(kind) == kind \in {"Isa", "Dng", "Pci", "Pcc", "Usb", "Lan", "Can"}

\* Variant: the five-volt capability is declared for every socket type.
HasFiveVoltsPower_Everywhere(kind) == kind \in SocketKinds

HasFiveVoltsPower(kind) == kind = "Usb"
HasSetFiveVoltsPower(kind) == kind = "Usb"
HasBusOffAutoreset(kind) == kind = "Usb"
HasSetBusOffAutoreset(kind) == kind = "Usb"
HasListenOnly(kind) == kind = "Usb"
HasSetListenOnly(kind) == kind = "Usb"
HasInterframeDelay(kind) == kind = "Usb"
HasSetInterframeDelay(kind) == kind = "Usb"

Features == {"FiveVoltsPower", "BusOffAutoreset", "ListenOnly", "InterframeDelay"}

HasGet(kind, feat) ==
    CASE feat = "FiveVoltsPower" -> HasFiveVoltsPower(kind)
      [] feat = "BusOffAutoreset" -> HasBusOffAutoreset(kind)
      [] feat = "ListenOnly" -> HasListenOnly(kind)
      [] feat = "InterframeDelay" -> HasInterframeDelay(kind)

HasSet(kind, feat) ==
    CASE feat = "FiveVoltsPower" -> HasSetFiveVoltsPower(kind)
      [] feat = "BusOffAutoreset" -> HasSetBusOffAutoreset(kind)
      [] feat = "ListenOnly" -> HasSetListenOnly(kind)
      [] feat = "InterframeDelay" -> HasSetInterframeDelay(kind)

\* Feature get / set: one CAN_GetValue / CAN_SetValue call keyed by the
\* feature's parameter and the handle, then the shared status match.
Feature_get(h, feat, code, value) ==
    [calls |-> <<Call("CAN_GetValue", h)>>, res |-> MatchStatus(code, value)]

Feature_set(h, feat, code, value) ==
    [calls |-> <<Call("CAN_SetValue", h)>>, res |-> MatchStatus(code, "unit")]

(***************************************************************************)
(* SpecIo: one socket of any type is opened in the first binding, used     *)
(* for reads, writes and feature calls, and dropped.                       *)
(***************************************************************************)
IoSlot == CHOOSE s \in Slots : \A t \in Slots : s <= t

\* What the driver may leave in the frame and timestamp memory of a read.
IoClassicFrames ==
    {[ID |-> 291, MSGTYPE |-> PCAN_MESSAGE_EXTENDED, LEN |-> n,
      DATA |-> <<1, 2, 170, 170, 170, 170, 170, 170>>] : n \in {2, 9}}
IoFdFrames ==
    {[ID |-> 291, MSGTYPE |-> PCAN_MESSAGE_EXTENDED, DLC |-> n,
      DATA |-> Payload(64, 1, 1)] : n \in {2, 65}}
IoTimestamps == {[micros |-> 1, millis |-> 2, millis_overflow |-> 0]}
IoTicks == {7}
\* Frames the caller writes.
IoWriteFrames == {CanFrame_new(32, "Standard", Payload(n, 0, 1)).frame : n \in {0, 8}}
IoWriteFdFrames == {CanFdFrame_new(32, "Standard", Payload(n, 0, 1)).frame : n \in {0, 64}}
IoValues == {0, 1}

\* The record of an operation op on the socket in binding s with outcome r.
OpRecord(op, feat, s, code, r) ==
    [op |-> op, feat |-> feat, slot |-> s, kind |-> sock[s].kind,
     handle |-> sock[s].handle, calls |-> r.calls, code |-> code, res |-> r.res,
     afterError |-> (lastOp.op # "none" /\ ~lastOp.res.ok)]

IoOpen ==
    /\ OpenInto(IoSlot)
    /\ UNCHANGED <<lastOp, frameVars, eqVars>>

IoDrop ==
    /\ DropAt(IoSlot)
    /\ UNCHANGED <<lastOp, frameVars, eqVars>>

IoRead ==
    /\ IsOpen(IoSlot) /\ HasCanRead(sock[IoSlot].kind)
    /\ \E code \in StatusCodes, filled \in IoClassicFrames, ts \in IoTimestamps :
          lastOp' = OpRecord("read", "-", IoSlot, code,
                             CanRead_read(sock[IoSlot].handle, code, filled, ts))
    /\ UNCHANGED <<sock, drv, frameVars, eqVars>>

IoReadFrame ==
    /\ IsOpen(IoSlot) /\ HasCanRead(sock[IoSlot].kind)
    /\ \E code \in StatusCodes, filled \in IoClassicFrames :
          lastOp' = OpRecord("read_frame", "-", IoSlot, code,
                             CanRead_read_frame(sock[IoSlot].handle, code, filled))
    /\ UNCHANGED <<sock, drv, frameVars, eqVars>>

IoReadFd ==
    /\ IsOpen(IoSlot) /\ HasCanReadFd(sock[IoSlot].kind)
    /\ \E code \in StatusCodes, filled \in IoFdFrames, ts \in IoTicks :
          lastOp' = OpRecord("fd_read", "-", IoSlot, code,
                             CanReadFd_read(sock[IoSlot].handle, code, filled, ts))
    /\ UNCHANGED <<sock, drv, frameVars, eqVars>>

IoReadFrameFd ==
    /\ IsOpen(IoSlot) /\ HasCanReadFd(sock[IoSlot].kind)
    /\ \E code \in StatusCodes, filled \in IoFdFrames :
          lastOp' = OpRecord("fd_read_frame", "-", IoSlot, code,
                             CanReadFd_read_frame(sock[IoSlot].handle, code, filled))
    /\ UNCHANGED <<sock, drv, frameVars, eqVars>>

IoWrite ==
    /\ IsOpen(IoSlot) /\ HasCanWrite(sock[IoSlot].kind)
    /\ \E code \in StatusCodes, frame \in IoWriteFrames :
          lastOp' = OpRecord("write", "-", IoSlot, code,
                             CanWrite_write(sock[IoSlot].handle, code, frame))
    /\ UNCHANGED <<sock, drv, frameVars, eqVars>>

IoWriteFd ==
    /\ IsOpen(IoSlot) /\ HasCanWriteFd(sock[IoSlot].kind)
    /\ \E code \in StatusCodes, frame \in IoWriteFdFrames :
          lastOp' = OpRecord("fd_write", "-", IoSlot, code,
                             CanWriteFd_write(sock[IoSlot].handle, code, frame))
    /\ UNCHANGED <<sock, drv, frameVars, eqVars>>

IoGet ==
    /\ IsOpen(IoSlot)
    /\ \E feat \in Features, code \in StatusCodes, value \in IoValues :
          /\ HasGet(sock[IoSlot].kind, feat)
          /\ lastOp' = OpRecord("get", feat, IoSlot, code,
                                Feature_get(sock[IoSlot].handle, feat, code, value))
    /\ UNCHANGED <<sock, drv, frameVars, eqVars>>

IoSet ==
    /\ IsOpen(IoSlot)
    /\ \E feat \in Features, code \in StatusCodes, value \in IoValues :
          /\ HasSet(sock[IoSlot].kind, feat)
          /\ lastOp' = OpRecord("set", feat, IoSlot, code,
                                Feature_set(sock[IoSlot].handle, feat, code, value))
    /\ UNCHANGED <<sock, drv, frameVars, eqVars>>

NextIo ==
    \/ IoOpen \/ IoDrop
    \/ IoRead \/ IoReadFrame \/ IoReadFd \/ IoReadFrameFd
    \/ IoWrite \/ IoWriteFd
    \/ IoGet \/ IoSet

SpecIo == Init /\ [][NextIo]_vars

(***************************************************************************)
(* Properties of the frame constructors (SpecFrame).                       *)
(***************************************************************************)

\* C3: for every payload of 0..8 bytes, any id and either mode,
\* CanFrame::new succeeds with dlc() equal to the payload length and data()
\* equal to the payload; for every longer payload it returns
\* Err(TooMuchData) and no frame.
C3_ClassicConstructionBound ==
    cnew # NotCalled =>
        IF Len(arg.data) <= 8
        THEN /\ cnew.ok
             /\ CanFrame_dlc(cnew.frame) = Len(arg.data)
             /\ ~CanFrame_data(cnew.frame).panic
             /\ CanFrame_data(cnew.frame).bytes = arg.data
        ELSE cnew = [ok |-> FALSE, err |-> "TooMuchData"]

C3_Witness ==
    /\ cnew.ok
    /\ Len(arg.data) = 8
    /\ arg.mode = "Extended"
    /\ CanFrame_data(cnew.frame).bytes = <<0, 1, 2, 3, 4, 5, 6, 7>>

\* C4: for every payload of 0..64 bytes, any id and either mode,
\* CanFdFrame::new succeeds with dlc() equal to the payload length and data()
\* equal to the payload; for every longer payload (65 bytes, both modes) it
\* returns Err(TooMuchData).
C4_FdConstructionBound ==
    fnew # NotCalled =>
        IF Len(arg.data) <= 64
        THEN /\ fnew.ok
             /\ CanFdFrame_dlc(fnew.frame) = Len(arg.data)
             /\ ~CanFdFrame_data(fnew.frame).panic
             /\ CanFdFrame_data(fnew.frame).bytes = arg.data
        ELSE fnew = [ok |-> FALSE, err |-> "TooMuchData"]

C4_Witness ==
    /\ fnew.ok
    /\ Len(arg.data) = 64
    /\ CanFdFrame_dlc(fnew.frame) = 64
    /\ CanFdFrame_data(fnew.frame).bytes = Payload(64, 0, 1)

\* The bitmask the specification assigns to an addressing mode.
ModeMask(mode) == IF mode = "Standard" THEN 2047 ELSE 536870911

\* C5: both constructors mask the identifier against the bitmask of the
\* requested mode: a Standard frame stores and reports id & 0x7FF, an
\* Extended frame stores and reports id & 0x1FFFFFFF.
C5_MaskOfRequestedMode ==
    /\ cnew.ok =>
          /\ cnew.frame.ID = BitAnd(arg.id, ModeMask(arg.mode))
          /\ CanFrame_can_id(cnew.frame) = BitAnd(arg.id, ModeMask(arg.mode))
    /\ fnew.ok =>
          /\ fnew.frame.ID = BitAnd(arg.id, ModeMask(arg.mode))
          /\ CanFdFrame_can_id(fnew.frame) = BitAnd(arg.id, ModeMask(arg.mode))

\* C10: can_id() of a frame built in Standard mode is id & 0x7FF, masking
\* that value again leaves it unchanged, and it never exceeds 0x7FF.
C10_MaskIdempotence ==
    /\ (cnew.ok /\ arg.mode = "Standard") =>
          /\ CanFrame_can_id(cnew.frame) = BitAnd(arg.id, 2047)
          /\ BitAnd(CanFrame_can_id(cnew.frame), 2047) = CanFrame_can_id(cnew.frame)
          /\ CanFrame_can_id(cnew.frame) <= 2047
    /\ (fnew.ok /\ arg.mode = "Standard") =>
          /\ CanFdFrame_can_id(fnew.frame) = BitAnd(arg.id, 2047)
          /\ BitAnd(CanFdFrame_can_id(fnew.frame), 2047) = CanFdFrame_can_id(fnew.frame)
          /\ CanFdFrame_can_id(fnew.frame) <= 2047

C10_Witness ==
    /\ arg.id = 134217727
    /\ arg.mode = "Standard"
    /\ cnew.ok /\ CanFrame_can_id(cnew.frame) = 2047
    /\ fnew.ok /\ CanFdFrame_can_id(fnew.frame) = 2047

(***************************************************************************)
(* Properties of frame equality (SpecEq).                                  *)
(***************************************************************************)

\* Two frames agree on identifier, message-type bits, length and on the
\* first `length` payload bytes.
SameMeaning ==
    /\ lhs.ID = rhs.ID
    /\ lhs.MSGTYPE = rhs.MSGTYPE
    /\ DlcOf(fam, lhs) = DlcOf(fam, rhs)
    /\ \A i \in 1..DlcOf(fam, lhs) : lhs.DATA[i] = rhs.DATA[i]

\* C8: frame equality ignores padding: two classic (or FD) frames with the
\* same identifier, message-type bits, length and first `length` payload
\* bytes compare equal whatever their unused tail holds, and frames that
\* differ in any of those compare unequal.
C8_EqualityIgnoresPadding ==
    eqres # "none" => eqres = (IF SameMeaning THEN "true" ELSE "false")

C8_Witness ==
    /\ eqres = "true"
    /\ DlcOf(fam, lhs) > 0
    /\ lhs.DATA # rhs.DATA

(***************************************************************************)
(* Properties of the socket lifecycle (Spec).                              *)
(***************************************************************************)

\* C1: every socket that was constructed and later dropped (possibly after
\* a move) had exactly one uninitialize call issued for its handle, and no
\* live socket has had one issued.
C1_SingleRelease ==
    \A s \in Slots :
        /\ sock[s].st = "dropped" => sock[s].released = 1
        /\ sock[s].st = "open" => sock[s].released = 0

\* C2: each channel handle has at most one live owning socket, and the
\* handle of a live socket is never uninitialized by the drop of another.
C2_OneOwnerPerHandle ==
    /\ \A s \in Slots, t \in Slots :
          (s # t /\ IsOpen(s) /\ IsOpen(t)) => sock[s].handle # sock[t].handle
    /\ \A s \in Slots : IsOpen(s) => sock[s].handle \in drv

\* C6: when the driver's initialize call returns a non-success status the
\* constructor returns the decoded error (Unknown for an unrecognized
\* status), no socket value exists and no uninitialize call is issued for
\* the attempt; a socket value exists only if initialize returned success.
C6_FailedInitYieldsNoSocket ==
    \A s \in Slots :
        /\ sock[s].st = "failed" =>
              /\ sock[s].code # "PCAN_ERROR_OK"
              /\ sock[s].err = (IF sock[s].code \in {"QrcvEmpty", "BusOff", "Initialize"}
                                THEN sock[s].code ELSE "Unknown")
              /\ sock[s].released = 0
        /\ sock[s].st \in {"open", "dropped"} => sock[s].code = "PCAN_ERROR_OK"

C6_Witness ==
    \E s \in Slots, t \in Slots :
        /\ sock[s].st = "failed" /\ sock[s].err = "Unknown"
        /\ sock[t].st = "failed" /\ sock[t].err = "Initialize"

(***************************************************************************)
(* Properties of the I/O operations and the capability matrix (SpecIo).    *)
(***************************************************************************)
ReadWriteOps == {"read", "read_frame", "fd_read", "fd_read_frame", "write", "fd_write"}

\* The driver entry point each read / write operation goes through.
EntryPoint(op) ==
    CASE op \in {"read", "read_frame"} -> "CAN_Read"
      [] op \in {"fd_read", "fd_read_frame"} -> "CAN_ReadFD"
      [] op = "write" -> "CAN_Write"
      [] op = "fd_write" -> "CAN_WriteFD"

SingleCallDecoded ==
    lastOp.op \in ReadWriteOps =>
        /\ lastOp.calls = <<[fn |-> EntryPoint(lastOp.op), handle |-> lastOp.handle]>>
        /\ lastOp.res.ok <=> lastOp.code = "PCAN_ERROR_OK"
        /\ lastOp.code \in {"QrcvEmpty", "BusOff", "Initialize"} =>
              lastOp.res = [ok |-> FALSE, err |-> lastOp.code]
        /\ lastOp.code \notin {"PCAN_ERROR_OK", "QrcvEmpty", "BusOff", "Initialize"} =>
              lastOp.res = [ok |-> FALSE, err |-> "Unknown"]

\* C7: every read, read_frame and write (classic and FD) issues exactly one
\* foreign call against the socket's own handle and never retries; it
\* returns Ok iff that call's status is the success value, the decoded
\* driver error for a recognized failure and Unknown otherwise; and the
\* operation leaves the socket open whatever it returned.
C7_SingleCallNoRetry ==
    /\ []SingleCallDecoded
    /\ [][lastOp' # lastOp => (sock' = sock /\ sock'[lastOp'.slot].st = "open")]_vars

\* A read_frame that succeeds on a socket whose previous operation failed.
C7_Witness ==
    /\ lastOp.op = "read_frame"
    /\ lastOp.afterError
    /\ lastOp.res.ok
    /\ Len(lastOp.calls) = 1
    /\ IsOpen(lastOp.slot)

\* The capability an operation is gated on.
Capabilities ==
    {"CanRead", "CanReadFd", "CanWrite", "CanWriteFd"} \cup Features
BaseCapabilities == {"CanRead", "CanReadFd", "CanWrite", "CanWriteFd"}
RequiredCapability(op, feat) ==
    CASE op \in {"read", "read_frame"} -> "CanRead"
      [] op \in {"fd_read", "fd_read_frame"} -> "CanReadFd"
      [] op = "write" -> "CanWrite"
      [] op = "fd_write" -> "CanWriteFd"
      [] op \in {"get", "set"} -> feat

\* The capabilities a socket type declares (a feature counts as declared
\* when both its get and its set tag are).
Declares(kind, cap) ==
    CASE cap = "CanRead" -> HasCanRead(kind)
      [] cap = "CanReadFd" -> HasCanReadFd(kind)
      [] cap = "CanWrite" -> HasCanWrite(kind)
      [] cap = "CanWriteFd" -> HasCanWriteFd(kind)
      [] cap \in Features -> HasGet(kind, cap) /\ HasSet(kind, cap)

\* C9: an operation is performed on a socket type only if the type declares
\* the matching capability; the USB socket declares all eight capabilities,
\* the ISA socket only the four base I/O capabilities, so no feature
\* operation ever runs on an ISA socket.
C9_CapabilityGating ==
    /\ lastOp.op # "none" =>
          /\ Declares(lastOp.kind, RequiredCapability(lastOp.op, lastOp.feat))
          /\ lastOp.kind = "Isa" => lastOp.op \in ReadWriteOps
    /\ {c \in Capabilities : Declares("Usb", c)} = Capabilities
    /\ {c \in Capabilities : Declares("Isa", c)} = BaseCapabilities

C9_Witness ==
    /\ lastOp.op = "set"
    /\ lastOp.feat = "InterframeDelay"
    /\ lastOp.kind = "Usb"
    /\ lastOp.res.ok

(***************************************************************************)
(* Properties of the frames a caller can obtain.                           *)
(***************************************************************************)

\* The frame carried by the Ok value of the last read operation.
ReadFrame ==
    IF lastOp.op \in {"read", "fd_read"} THEN lastOp.res.val.frame ELSE lastOp.res.val

\* C11: every frame a caller can obtain (from new, from default, or from a
\* successful read / read_frame, whose fields the driver fills in) has a
\* length within the capacity, 8 for classic and 64 for FD, so data()
\* returns a length-bounded prefix and never indexes past the buffer.
C11_LengthInvariant ==
    /\ \A f \in IoWriteFrames \cup {CanFrame_default} :
          CanFrame_dlc(f) <= 8 /\ ~CanFrame_data(f).panic
    /\ \A f \in IoWriteFdFrames \cup {CanFdFrame_default} :
          CanFdFrame_dlc(f) <= 64 /\ ~CanFdFrame_data(f).panic
    /\ (lastOp.op \in {"read", "read_frame"} /\ lastOp.res.ok) =>
          /\ CanFrame_dlc(ReadFrame) <= 8
          /\ ~CanFrame_data(ReadFrame).panic
    /\ (lastOp.op \in {"fd_read", "fd_read_frame"} /\ lastOp.res.ok) =>
          /\ CanFdFrame_dlc(ReadFrame) <= 64
          /\ ~CanFdFrame_data(ReadFrame).panic

\* C12: the mode predicates agree with the mode a frame was built with: for
\* every frame produced by new or default (classic and FD) exactly one of
\* is_standard_frame() and is_extended_frame() is true, the former for a
\* frame built with Standard (the default frame included), the latter for
\* a frame built with Extended.
C12_ModePredicatesAgree ==
    /\ cnew.ok =>
          /\ CanFrame_is_standard_frame(cnew.frame) # CanFrame_is_extended_frame(cnew.frame)
          /\ CanFrame_is_standard_frame(cnew.frame) <=> arg.mode = "Standard"
          /\ CanFrame_is_extended_frame(cnew.frame) <=> arg.mode = "Extended"
    /\ fnew.ok =>
          /\ CanFdFrame_is_standard_frame(fnew.frame) # CanFdFrame_is_extended_frame(fnew.frame)
          /\ CanFdFrame_is_standard_frame(fnew.frame) <=> arg.mode = "Standard"
          /\ CanFdFrame_is_extended_frame(fnew.frame) <=> arg.mode = "Extended"

====
